---- MODULE Spec2Model ----
(***************************************************************************)
(* Model of app.py (the "Smoot" airline strike-risk page).                 *)
(*                                                                         *)
(*  - get_airline_risk (app.py 84-131) is modelled twice from the same     *)
(*    per-branch operators: as a step-by-step loop (specification Spec,    *)
(*    one action per branch of the loop body) and as the pure operator     *)
(*    get_airline_risk used by the search handler and by the claims.       *)
(*  - the search page (app.py 150-249) is modelled by SearchSpec: the      *)
(*    three widgets and the Search button.                                 *)
(*                                                                         *)
(* Dates (datetime.date) are proleptic Gregorian ordinals, as              *)
(* date.toordinal() numbers them; expiration dates are the strings the     *)
(* database holds and are parsed as strptime(.., "%Y-%m-%d") parses them.  *)
(* Reasons are records [kind, text]: text is the f-string the code builds, *)
(* without its leading emoji; kind names the f-string.                     *)
(***************************************************************************)
EXTENDS Integers, Sequences, FiniteSets, TLC

VARIABLES db, code, start_date, end_date, pc, idx, risk_color, reasons,
          date_range, selected_city, selected_airline_name, page

evalVars == <<code, start_date, end_date, pc, idx, risk_color, reasons>>
uiVars == <<date_range, selected_city, selected_airline_name, page>>
vars == <<db, code, start_date, end_date, pc, idx, risk_color, reasons,
          date_range, selected_city, selected_airline_name, page>>

(***************************************************************************)
(* Bounds and program constants                                            *)
(***************************************************************************)
\* the largest number of union groups of an airline record
MaxGroups == 2

\* datetime(2099, 12, 31), app.py line 98
SentinelYear == 2099
SentinelMonth == 12
SentinelDay == 31
\* 0 < (expiry_date - end_date).days < 30, app.py line 120
ShortlyAfterDays == 30

(***************************************************************************)
(* Strings                                                                 *)
(***************************************************************************)
CharAt(s, i) == SubSeq(s, i, i)

\* Python's  sub in s
Contains(s, sub) ==
    \E i \in 1..(Len(s) - Len(sub) + 1) : SubSeq(s, i, i + Len(sub) - 1) = sub

LowerLetters == "abcdefghijklmnopqrstuvwxyz"
UpperLetters == "ABCDEFGHIJKLMNOPQRSTUVWXYZ"

IsLower(c) == \E k \in 1..26 : CharAt(LowerLetters, k) = c
IsUpper(c) == \E k \in 1..26 : CharAt(UpperLetters, k) = c
ToUpper(c) ==
    IF IsLower(c)
    THEN CharAt(UpperLetters, CHOOSE k \in 1..26 : CharAt(LowerLetters, k) = c)
    ELSE c
ToLower(c) ==
    IF IsUpper(c)
    THEN CharAt(LowerLetters, CHOOSE k \in 1..26 : CharAt(UpperLetters, k) = c)
    ELSE c

\* str.title(): a letter that follows a non-letter is upper-cased, every
\* other letter is lower-cased
RECURSIVE TitleFrom(_, _, _)
TitleFrom(s, i, prevCased) ==
    IF i > Len(s) THEN ""
    ELSE LET c == CharAt(s, i)
             cased == IsLower(c) \/ IsUpper(c)
         IN  (IF prevCased THEN ToLower(c) ELSE ToUpper(c))
                 \o TitleFrom(s, i + 1, cased)
Title(s) == TitleFrom(s, 1, FALSE)

(***************************************************************************)
(* Dates                                                                   *)
(***************************************************************************)
IsLeap(y) == (y % 4 = 0) /\ ((y % 100 # 0) \/ (y % 400 = 0))

DaysInMonth(y, m) ==
    IF m = 2 THEN (IF IsLeap(y) THEN 29 ELSE 28)
    ELSE IF m \in {4, 6, 9, 11} THEN 30 ELSE 31

RECURSIVE DaysBeforeMonth(_, _)
DaysBeforeMonth(y, m) ==
    IF m = 1 THEN 0 ELSE DaysBeforeMonth(y, m - 1) + DaysInMonth(y, m - 1)

\* date(y, m, d).toordinal()
Ordinal(y, m, d) ==
    LET p == y - 1
    IN  p * 365 + (p \div 4) - (p \div 100) + (p \div 400)
          + DaysBeforeMonth(y, m) + d

Digits == "0123456789"
IsDigit(c) == \E n \in 0..9 : CharAt(Digits, n + 1) = c
DigitVal(c) == CHOOSE n \in 0..9 : CharAt(Digits, n + 1) = c

AllDigits(s) == \A i \in 1..Len(s) : IsDigit(CharAt(s, i))

RECURSIVE NumVal(_)
NumVal(s) ==
    IF Len(s) = 0 THEN 0
    ELSE 10 * NumVal(SubSeq(s, 1, Len(s) - 1)) + DigitVal(CharAt(s, Len(s)))

\* the fields of a string shaped  YYYY-M[M]-D[D] : the second dash is at 7 or 8
DashPos(s) == IF CharAt(s, 7) = "-" THEN 7 ELSE 8
YearField(s) == SubSeq(s, 1, 4)
MonthField(s) == SubSeq(s, 6, DashPos(s) - 1)
DayField(s) == SubSeq(s, DashPos(s) + 1, Len(s))

\* %d also accepts a blank followed by one digit
DayFieldOk(f) ==
    \/ Len(f) \in {1, 2} /\ AllDigits(f)
    \/ Len(f) = 2 /\ CharAt(f, 1) = " " /\ IsDigit(CharAt(f, 2))
DayVal(f) == IF CharAt(f, 1) = " " THEN NumVal(SubSeq(f, 2, 2)) ELSE NumVal(f)

\* whether datetime.strptime(s, "%Y-%m-%d") returns (TRUE) or raises
\* ValueError (FALSE)
ParseOk(s) ==
    /\ Len(s) \in 8..10
    /\ AllDigits(YearField(s))
    /\ CharAt(s, 5) = "-"
    /\ CharAt(s, DashPos(s)) = "-"
    /\ Len(MonthField(s)) \in {1, 2}
    /\ AllDigits(MonthField(s))
    /\ DayFieldOk(DayField(s))
    /\ NumVal(YearField(s)) >= 1
    /\ NumVal(MonthField(s)) \in 1..12
    /\ DayVal(DayField(s)) \in
           1..DaysInMonth(NumVal(YearField(s)), NumVal(MonthField(s)))

\* datetime.strptime(s, "%Y-%m-%d").date(), for a string that parses
ParseDate(s) ==
    Ordinal(NumVal(YearField(s)), NumVal(MonthField(s)), DayVal(DayField(s)))

(***************************************************************************)
(* The risk engine: the branches of get_airline_risk's loop body           *)
(***************************************************************************)
\* a union group is [group, status, expiration_date]: one item of
\* airline_data['unions'].items(), whose order is the dict's insertion order

\* mutant: the year of the sentinel mistyped as 1999
ResolveExpiry_Sentinel1999(expiration_date) ==
    IF expiration_date = "N/A"
    THEN Ordinal(1999, SentinelMonth, SentinelDay)
    ELSE ParseDate(expiration_date)

\* line 97-100: the expiry date of a group whose expiration_date parses
ResolveExpiry(expiration_date) ==
    IF expiration_date = "N/A"
    THEN Ordinal(SentinelYear, SentinelMonth, SentinelDay)
    ELSE ParseDate(expiration_date)

\* line 97-100: strptime raises ValueError
ExpiryRaises(expiration_date) ==
    expiration_date # "N/A" /\ ~ParseOk(expiration_date)

\* mutant: "Binding Arbitration" forgotten
IsSafe_NonUnionOnly(status) == status = "Non-Union"

\* line 103
IsSafe(status) == status \in {"Non-Union", "Binding Arbitration"}

\* mutant: equality with the keywords instead of the substring test
IsCritical_ExactMatch(status) == status \in {"Strike", "Impasse", "Cooling-off"}

\* line 107
IsCritical(status) ==
    \E x \in {"Strike", "Impasse", "Cooling-off"} : Contains(status, x)

\* mutant: the warnings are evaluated whatever the level
WarningsGate_Always(color) == TRUE

\* line 112: the elif that gates the warnings
WarningsGate(color) == color # "RED"

Reason(kind, text) == [kind |-> kind, text |-> text]

\* mutant: RED is set only when no warning was given before
CriticalBranch_OnlyFromGreen(color, rs, g) ==
    [color |-> IF color = "GREEN" THEN "RED" ELSE color,
     reasons |-> Append(rs, [kind |-> "CRITICAL",
                     text |-> "[CRITICAL] " \o Title(g.group) \o ": " \o g.status])]

\* lines 108-109
CriticalBranch(color, rs, g) ==
    [color |-> "RED",
     reasons |-> Append(rs, Reason("CRITICAL",
                     "[CRITICAL] " \o Title(g.group) \o ": " \o g.status))]

\* line 114
ExpiresBefore(expiry, start, end) == expiry < start
\* line 117
ExpiresDuring(expiry, start, end) == start <= expiry /\ expiry <= end
\* mutant: the 30th day counted as "shortly after"
ExpiresShortlyAfter_Inclusive(expiry, start, end) ==
    0 < expiry - end /\ expiry - end <= ShortlyAfterDays

\* line 120
ExpiresShortlyAfter(expiry, start, end) ==
    0 < expiry - end /\ expiry - end < ShortlyAfterDays

\* lines 114-122: the if / elif / elif chain on the expiry date
ExpiryLogic(color, rs, g, start, end) ==
    LET expiry == ResolveExpiry(g.expiration_date)
    IN  IF ExpiresBefore(expiry, start, end)
        THEN [color |-> "YELLOW",
              reasons |-> Append(rs, Reason("BEFORE",
                  "[WARNING] " \o Title(g.group)
                      \o " contract expires BEFORE your trip ("
                      \o g.expiration_date \o ")."))]
        ELSE IF ExpiresDuring(expiry, start, end)
        THEN [color |-> "YELLOW",
              reasons |-> Append(rs, Reason("DURING",
                  "[WARNING] " \o Title(g.group)
                      \o " contract expires DURING your trip."))]
        ELSE IF ExpiresShortlyAfter(expiry, start, end)
        THEN [color |-> "YELLOW",
              reasons |-> Append(rs, Reason("SHORTLY_AFTER",
                  "[CAUTION] " \o Title(g.group)
                      \o " contract expires shortly after return."))]
        ELSE [color |-> color, reasons |-> rs]

\* mutant: the level is not looked at
NegotiatingApplies_AnyColor(color, status) == status = "Negotiating"

\* line 124: the condition of the negotiating check
NegotiatingApplies(color, status) == status = "Negotiating" /\ color = "GREEN"

\* lines 124-126
NegotiatingCheck(color, rs, g) ==
    IF NegotiatingApplies(color, g.status)
    THEN [color |-> "YELLOW",
          reasons |-> Append(rs, Reason("NEGOTIATING",
              "[WARNING] " \o Title(g.group) \o " are currently negotiating."))]
    ELSE [color |-> color, reasons |-> rs]

\* lines 128-131
FinalCheck(color, rs) ==
    IF color = "GREEN"
    THEN [color |-> color,
          reasons |-> Append(rs, Reason("OK", "Contracts active."))]
    ELSE [color |-> color, reasons |-> rs]

\* mutant: an unknown code reported as an airline without risk
NoData_AsGreen ==
    [color |-> "GREEN",
     reasons |-> <<[kind |-> "OK", text |-> "Contracts active."]>>]

\* lines 88-89
NoData == [color |-> "GREY",
           reasons |-> <<Reason("NO_DATA", "No data available")>>]

\* lines 96-126: one pass of the loop body over group g
LoopBody(color, rs, g, start, end) ==
    IF IsSafe(g.status) THEN [color |-> color, reasons |-> rs]
    ELSE IF IsCritical(g.status) THEN CriticalBranch(color, rs, g)
    ELSE IF WarningsGate(color)
    THEN LET e == ExpiryLogic(color, rs, g, start, end)
         IN  NegotiatingCheck(e.color, e.reasons, g)
    ELSE [color |-> color, reasons |-> rs]

\* lines 95-126: the loop over the groups from position i on
RECURSIVE LoopFrom(_, _, _, _, _, _)
LoopFrom(unions, i, color, rs, start, end) ==
    IF i > Len(unions) THEN FinalCheck(color, rs)
    ELSE IF ExpiryRaises(unions[i].expiration_date)
    THEN [color |-> "ValueError", reasons |-> <<>>]
    ELSE LET r == LoopBody(color, rs, unions[i], start, end)
         IN  LoopFrom(unions, i + 1, r.color, r.reasons, start, end)

\* get_airline_risk(code, start_date, end_date, db): the pair it returns, or
\* color "ValueError" when strptime raises
get_airline_risk(c, start, end, d) ==
    IF c \notin DOMAIN d THEN NoData
    ELSE LoopFrom(d[c].unions, 1, "GREEN", <<>>, start, end)

(***************************************************************************)
(* Inputs of the evaluation                                                *)
(***************************************************************************)
\* the keys of a 'unions' dict, by position
GroupLabels ==
    <<"pilots", "flight attendants", "mechanics", "dispatchers", "ground crew">>

MalformedDate == "2025-02-30"

\* the (status, expiration_date) pairs of the union groups
GroupDetails ==
    { <<"Non-Union", "N/A">>, <<"Binding Arbitration", "2025-06-10">>,
      <<"Non-Union", MalformedDate>>,
      <<"Strike Vote", "2025-05-31">>, <<"Impasse", "N/A">>,
      <<"Cooling-off Period", "2025-06-10">> }
        \cup ({"Negotiating"} \X
                 {"N/A", "2025-05-31", "2025-06-10", "2025-07-09", "2025-07-10"})
        \cup ({"Open"} \X
                 {"N/A", "2025-05-31", "2025-06-01", "2025-06-10", "2025-07-09",
                  "2025-07-10"})

UnionsOfLen(k) ==
    { [i \in 1..k |-> [group |-> GroupLabels[i],
                       status |-> f[i][1],
                       expiration_date |-> f[i][2]]] :
          f \in [1..k -> GroupDetails] }

AllUnions == UNION { UnionsOfLen(k) : k \in 0..MaxGroups }

\* trip windows <<start, end>>: an ordinary one, one whose end precedes its
\* start, and three next to the date the code gives "N/A"
Windows ==
    { <<Ordinal(2025, 6, 1), Ordinal(2025, 6, 10)>>,
      <<Ordinal(2025, 6, 10), Ordinal(2025, 6, 1)>>,
      <<Ordinal(2099, 11, 20), Ordinal(2099, 12, 1)>>,
      <<Ordinal(2099, 11, 20), Ordinal(2099, 12, 2)>>,
      <<Ordinal(2100, 1, 5), Ordinal(2100, 1, 5)>> }

\* line 50: what load_data returns when the file is missing
EmptyDb == << >>

Airline(name, unions) == [name |-> name, unions |-> unions]

(***************************************************************************)
(* Specification Spec: one call of get_airline_risk, branch by branch      *)
(***************************************************************************)
\* pc: "call" before line 88, "loop" at line 95, "negotiating" at line 124,
\* "returned" after a return, "raised" after strptime's ValueError
UiIdle ==
    /\ date_range = << >>
    /\ selected_city = ""
    /\ selected_airline_name = ""
    /\ page = [view |-> "idle"]

Init ==
    /\ \/ /\ code = "AC"
          /\ db \in { ("AC" :> Airline("Air Canada", u)) : u \in AllUnions }
       \/ /\ code = "WS"
          /\ db \in {EmptyDb}
                 \cup { ("AC" :> Airline("Air Canada", u)) : u \in UnionsOfLen(1) }
    /\ \E w \in Windows : start_date = w[1] /\ end_date = w[2]
    /\ pc = "call"
    /\ idx = 0
    /\ risk_color = "NONE"
    /\ reasons = << >>
    /\ UiIdle

unions == db[code].unions
group == unions[idx]

\* lines 88-89
ReturnNoData ==
    /\ pc = "call"
    /\ code \notin DOMAIN db
    /\ risk_color' = NoData.color
    /\ reasons' = NoData.reasons
    /\ pc' = "returned"
    /\ UNCHANGED <<db, code, start_date, end_date, idx>>
    /\ UNCHANGED uiVars

\* lines 91-93
EnterLoop ==
    /\ pc = "call"
    /\ code \in DOMAIN db
    /\ risk_color' = "GREEN"
    /\ reasons' = << >>
    /\ idx' = 1
    /\ pc' = "loop"
    /\ UNCHANGED <<db, code, start_date, end_date>>
    /\ UNCHANGED uiVars

AtGroup == pc = "loop" /\ idx <= Len(unions)

\* line 100 raises
ParseRaises ==
    /\ AtGroup
    /\ ExpiryRaises(group.expiration_date)
    /\ pc' = "raised"
    /\ UNCHANGED <<db, code, start_date, end_date, idx, risk_color, reasons>>
    /\ UNCHANGED uiVars

\* lines 103-104
SafeGroup ==
    /\ AtGroup
    /\ ~ExpiryRaises(group.expiration_date)
    /\ IsSafe(group.status)
    /\ idx' = idx + 1
    /\ UNCHANGED <<db, code, start_date, end_date, pc, risk_color, reasons>>
    /\ UNCHANGED uiVars

\* lines 107-109
CriticalGroup ==
    /\ AtGroup
    /\ ~ExpiryRaises(group.expiration_date)
    /\ ~IsSafe(group.status)
    /\ IsCritical(group.status)
    /\ LET r == CriticalBranch(risk_color, reasons, group)
       IN  risk_color' = r.color /\ reasons' = r.reasons
    /\ idx' = idx + 1
    /\ UNCHANGED <<db, code, start_date, end_date, pc>>
    /\ UNCHANGED uiVars

\* line 112 is false: nothing is done for the group
GatedGroup ==
    /\ AtGroup
    /\ ~ExpiryRaises(group.expiration_date)
    /\ ~IsSafe(group.status)
    /\ ~IsCritical(group.status)
    /\ ~WarningsGate(risk_color)
    /\ idx' = idx + 1
    /\ UNCHANGED <<db, code, start_date, end_date, pc, risk_color, reasons>>
    /\ UNCHANGED uiVars

\* lines 112-122
ExpiryStep ==
    /\ AtGroup
    /\ ~ExpiryRaises(group.expiration_date)
    /\ ~IsSafe(group.status)
    /\ ~IsCritical(group.status)
    /\ WarningsGate(risk_color)
    /\ LET r == ExpiryLogic(risk_color, reasons, group, start_date, end_date)
       IN  risk_color' = r.color /\ reasons' = r.reasons
    /\ pc' = "negotiating"
    /\ UNCHANGED <<db, code, start_date, end_date, idx>>
    /\ UNCHANGED uiVars

\* lines 124-126
NegotiatingStep ==
    /\ pc = "negotiating"
    /\ LET r == NegotiatingCheck(risk_color, reasons, group)
       IN  risk_color' = r.color /\ reasons' = r.reasons
    /\ idx' = idx + 1
    /\ pc' = "loop"
    /\ UNCHANGED <<db, code, start_date, end_date>>
    /\ UNCHANGED uiVars

\* lines 128-131
Return ==
    /\ pc = "loop"
    /\ idx > Len(unions)
    /\ LET r == FinalCheck(risk_color, reasons)
       IN  risk_color' = r.color /\ reasons' = r.reasons
    /\ pc' = "returned"
    /\ UNCHANGED <<db, code, start_date, end_date, idx>>
    /\ UNCHANGED uiVars

Next ==
    \/ ReturnNoData
    \/ EnterLoop
    \/ ParseRaises
    \/ SafeGroup
    \/ CriticalGroup
    \/ GatedGroup
    \/ ExpiryStep
    \/ NegotiatingStep
    \/ Return

Spec == Init /\ [][Next]_vars

\* the branch-by-branch run returns what the operator computes
StepwiseAgrees ==
    /\ pc = "returned" =>
          get_airline_risk(code, start_date, end_date, db)
              = [color |-> risk_color, reasons |-> reasons]
    /\ pc = "raised" =>
          get_airline_risk(code, start_date, end_date, db).color = "ValueError"

(***************************************************************************)
(* The search page                                                         *)
(***************************************************************************)
\* lines 59-78
city_db ==
    [ c \in {"Toronto (YYZ)", "Vancouver (YVR)", "Montreal (YUL)",
             "New York (JFK)", "New York (LGA)", "Newark (EWR)",
             "Los Angeles (LAX)", "Chicago (ORD)", "Atlanta (ATL)",
             "Dallas (DFW)", "Denver (DEN)", "Seattle (SEA)",
             "San Francisco (SFO)", "Miami (MIA)", "Orlando (MCO)",
             "Las Vegas (LAS)", "Boston (BOS)", "Fort Lauderdale (FLL)"} |->
        CASE c = "Toronto (YYZ)" -> <<"AC", "WS", "TS", "UA", "DL", "AA">>
          [] c = "Vancouver (YVR)" -> <<"AC", "WS", "UA", "DL", "AA", "AS">>
          [] c = "Montreal (YUL)" -> <<"AC", "TS", "UA", "DL", "AA">>
          [] c = "New York (JFK)" -> <<"DL", "B6", "AA", "AS">>
          [] c = "New York (LGA)" -> <<"DL", "AA", "UA", "WN", "AC", "WS">>
          [] c = "Newark (EWR)" -> <<"UA", "DL", "AA", "AC", "AS", "NK">>
          [] c = "Los Angeles (LAX)" ->
                 <<"UA", "AA", "DL", "AS", "WN", "B6", "NK", "AC", "WS">>
          [] c = "Chicago (ORD)" -> <<"UA", "AA", "DL", "WN", "AC", "WS">>
          [] c = "Atlanta (ATL)" -> <<"DL", "WN", "NK", "UA", "AA">>
          [] c = "Dallas (DFW)" -> <<"AA", "UA", "DL", "NK", "AC">>
          [] c = "Denver (DEN)" -> <<"UA", "WN", "DL", "AA", "AC">>
          [] c = "Seattle (SEA)" -> <<"AS", "DL", "UA", "WN", "AC">>
          [] c = "San Francisco (SFO)" ->
                 <<"UA", "AS", "DL", "AA", "AC", "WS", "B6">>
          [] c = "Miami (MIA)" -> <<"AA", "DL", "UA", "AC", "WS", "NK">>
          [] c = "Orlando (MCO)" ->
                 <<"WN", "NK", "DL", "UA", "AA", "AC", "WS", "B6">>
          [] c = "Las Vegas (LAS)" ->
                 <<"WN", "NK", "UA", "DL", "AA", "AC", "WS", "AS", "B6">>
          [] c = "Boston (BOS)" -> <<"B6", "DL", "UA", "AA", "AC", "WS", "NK">>
          [] c = "Fort Lauderdale (FLL)" ->
                 <<"NK", "B6", "WN", "DL", "UA", "AA", "AC", "WS">> ]

\* line 81: sorted(city_db.keys())
sorted_cities ==
    <<"Atlanta (ATL)", "Boston (BOS)", "Chicago (ORD)", "Dallas (DFW)",
      "Denver (DEN)", "Fort Lauderdale (FLL)", "Las Vegas (LAS)",
      "Los Angeles (LAX)", "Miami (MIA)", "Montreal (YUL)", "New York (JFK)",
      "New York (LGA)", "Newark (EWR)", "Orlando (MCO)", "San Francisco (SFO)",
      "Seattle (SEA)", "Toronto (YYZ)", "Vancouver (YVR)">>

\* line 56
code_to_name(d) == [c \in DOMAIN d |-> d[c].name]

\* line 54 and line 206: name_to_code[name]; names are unique in the database
name_to_code(d, name) == CHOOSE c \in DOMAIN d : d[c].name = name

RECURSIVE NamesFrom(_, _, _)
NamesFrom(d, codes, i) ==
    IF i > Len(codes) THEN << >>
    ELSE IF codes[i] \in DOMAIN d
    THEN <<code_to_name(d)[codes[i]]>> \o NamesFrom(d, codes, i + 1)
    ELSE NamesFrom(d, codes, i + 1)

\* lines 178-181
available_names(d, city) == NamesFrom(d, city_db[city], 1)

\* a selectbox shows its first option, and None when it has no option
NoSelection == "None"
FirstOption(options) == IF Len(options) = 0 THEN NoSelection ELSE options[1]

\* mutant: every airline that is not RED is offered
IsSafeAlternative_NotRed(alt_color) == alt_color # "RED"

\* line 239
IsSafeAlternative(alt_color) == alt_color = "GREEN"

\* lines 233-241: the loop over available_codes from position i on; the
\* list of names, or <<"ValueError">> when an evaluation raises
RECURSIVE AlternativesFrom(_, _, _, _, _, _, _)
AlternativesFrom(d, codes, i, chosen_code, start, end, acc) ==
    IF i > Len(codes) THEN acc
    ELSE IF codes[i] = chosen_code
    THEN AlternativesFrom(d, codes, i + 1, chosen_code, start, end, acc)
    ELSE LET alt_color == get_airline_risk(codes[i], start, end, d).color
         IN  IF alt_color = "ValueError" THEN <<"ValueError">>
             ELSE IF IsSafeAlternative(alt_color)
             THEN AlternativesFrom(d, codes, i + 1, chosen_code, start, end,
                      Append(acc, IF codes[i] \in DOMAIN d
                                  THEN code_to_name(d)[codes[i]]
                                  ELSE codes[i]))
             ELSE AlternativesFrom(d, codes, i + 1, chosen_code, start, end, acc)

\* lines 229-241
safe_alternatives(d, city, chosen_code, start, end) ==
    AlternativesFrom(d, city_db[city], 1, chosen_code, start, end, << >>)

\* line 221
RiskDetected(color) == color \in {"RED", "YELLOW"}

(***************************************************************************)
(* Inputs of the search page                                               *)
(***************************************************************************)
\* line 156: the day the page is opened
Today == Ordinal(2025, 6, 1)

\* what the date picker can hold: the default range (line 159), a range
\* with only its first date picked, and a later range
DateRanges ==
    { <<Today, Today + 7>>, <<Today + 4>>, <<Today + 4, Today + 11>> }

Pilots(status, expiration_date) ==
    <<[group |-> "pilots", status |-> status,
       expiration_date |-> expiration_date]>>

\* the records an airline can have in the database
Profiles ==
    { Pilots("Non-Union", "N/A"), Pilots("Open", "2025-07-10"),
      Pilots("Strike Vote", "2025-05-31") }

AirlineNames ==
    ("AC" :> "Air Canada") @@ ("WS" :> "WestJet") @@ ("DL" :> "Delta Air Lines")
        @@ ("UA" :> "United Airlines")

\* the databases: any of four airlines present or absent; one of them can
\* hold a date that does not parse
Databases ==
    UNION { { [c \in S |-> Airline(AirlineNames[c], f[c])] :
                f \in [S -> Profiles \cup
                              {Pilots("Open", MalformedDate)}] } :
            S \in SUBSET {"AC", "WS", "DL"} }

(***************************************************************************)
(* Specification SearchSpec: the widgets and the Search button             *)
(***************************************************************************)
EvalIdle ==
    /\ code = ""
    /\ start_date = 0
    /\ end_date = 0
    /\ pc = "idle"
    /\ idx = 0
    /\ risk_color = "NONE"
    /\ reasons = << >>

Idle == [view |-> "idle"]

SearchInit ==
    /\ db \in Databases
    /\ date_range = <<Today, Today + 7>>
    /\ selected_city = sorted_cities[1]
    /\ selected_airline_name = FirstOption(available_names(db, sorted_cities[1]))
    /\ page = Idle
    /\ EvalIdle

\* lines 157-162: a rerun with another value of the date picker
PickDates ==
    /\ \E r \in DateRanges : r # date_range /\ date_range' = r
    /\ page' = Idle
    /\ UNCHANGED <<db, selected_city, selected_airline_name>>
    /\ UNCHANGED evalVars

\* lines 167-187: a rerun with another city; the airline selectbox keeps its
\* value only when its options are the same
SelectCity ==
    /\ \E c \in DOMAIN city_db :
          /\ c # selected_city
          /\ selected_city' = c
          /\ selected_airline_name' =
                IF available_names(db, c) = available_names(db, selected_city)
                THEN selected_airline_name
                ELSE FirstOption(available_names(db, c))
    /\ page' = Idle
    /\ UNCHANGED <<db, date_range>>
    /\ UNCHANGED evalVars

\* lines 183-187: a rerun with another airline
SelectAirline ==
    /\ \E i \in 1..Len(available_names(db, selected_city)) :
          /\ available_names(db, selected_city)[i] # selected_airline_name
          /\ selected_airline_name' = available_names(db, selected_city)[i]
    /\ page' = Idle
    /\ UNCHANGED <<db, date_range, selected_city>>
    /\ UNCHANGED evalVars

\* lines 199-201
SearchDatesIncomplete ==
    /\ Len(date_range) # 2
    /\ page' = [view |-> "error",
                text |-> "Please select both a departure and return date."]
    /\ UNCHANGED <<db, date_range, selected_city, selected_airline_name>>
    /\ UNCHANGED evalVars

\* line 206 raises KeyError: the airline selectbox had no option
SearchKeyError ==
    /\ Len(date_range) = 2
    /\ selected_airline_name = NoSelection
    /\ page' = [view |-> "exception", text |-> "KeyError"]
    /\ UNCHANGED <<db, date_range, selected_city, selected_airline_name>>
    /\ UNCHANGED evalVars

\* the page lines 203-249 render: the assessment and, when a risk is
\* detected, the alternatives; an exception when an evaluation raises
ResultsPage(d, city, name, start, end) ==
    LET chosen_code == name_to_code(d, name)
        r == get_airline_risk(chosen_code, start, end, d)
        alts == safe_alternatives(d, city, chosen_code, start, end)
    IN  IF r.color = "ValueError"
        THEN [view |-> "exception", text |-> "ValueError"]
        ELSE IF ~RiskDetected(r.color)
        THEN [view |-> "results", chosen_code |-> chosen_code,
              risk_color |-> r.color, messages |-> r.reasons,
              recommendation |-> FALSE, safe_alternatives |-> << >>]
        ELSE IF alts = <<"ValueError">>
        THEN [view |-> "exception", text |-> "ValueError"]
        ELSE [view |-> "results", chosen_code |-> chosen_code,
              risk_color |-> r.color, messages |-> r.reasons,
              recommendation |-> TRUE, safe_alternatives |-> alts]

\* lines 203-249
SearchResults ==
    /\ Len(date_range) = 2
    /\ selected_airline_name # NoSelection
    /\ page' = ResultsPage(db, selected_city, selected_airline_name,
                           date_range[1], date_range[2])
    /\ UNCHANGED <<db, date_range, selected_city, selected_airline_name>>
    /\ UNCHANGED evalVars

SearchNext ==
    \/ PickDates
    \/ SelectCity
    \/ SelectAirline
    \/ SearchDatesIncomplete
    \/ SearchKeyError
    \/ SearchResults

SearchSpec == SearchInit /\ [][SearchNext]_vars

\* the airline selectbox always holds one of its options
SelectionIsAnOption ==
    pc = "idle" =>
        LET options == available_names(db, selected_city)
        IN  IF Len(options) = 0 THEN selected_airline_name = NoSelection
            ELSE \E i \in 1..Len(options) : options[i] = selected_airline_name

(***************************************************************************)
(* Properties of get_airline_risk (specification Spec)                     *)
(***************************************************************************)
Known == code \in DOMAIN db

\* every expiration date of the record is "N/A" or a calendar date
WellFormedDates ==
    \A i \in 1..Len(unions) : ~ExpiryRaises(unions[i].expiration_date)

HasCriticalText(status) ==
    \/ Contains(status, "Strike")
    \/ Contains(status, "Impasse")
    \/ Contains(status, "Cooling-off")

ExactlySafe(status) == status = "Non-Union" \/ status = "Binding Arbitration"

OkReason == [kind |-> "OK", text |-> "Contracts active."]

DateKinds == {"BEFORE", "DURING", "SHORTLY_AFTER"}

\* the reasons of the three date rules that name the group with this label
DateReasonsOf(rs, label) ==
    { k \in 1..Len(rs) :
        /\ rs[k].kind \in DateKinds
        /\ Contains(rs[k].text, Title(label) \o " contract expires") }

\* C1: whenever a known airline with well-formed dates has a group whose
\* status contains "Strike", "Impasse" or "Cooling-off", the evaluation does
\* not raise and the level it returns is RED, for every window, every
\* expiration date, every other group and every position of that group.
C1_CriticalIsRed ==
    (/\ Known
     /\ WellFormedDates
     /\ \E i \in 1..Len(unions) : HasCriticalText(unions[i].status))
        => /\ pc # "raised"
           /\ pc = "returned" => risk_color = "RED"

\* a critical group is processed first and a group whose contract expires
\* during the trip after it, and RED is returned
C1_Witness ==
    /\ pc = "returned"
    /\ Known
    /\ Len(unions) = 2
    /\ unions[1].status = "Strike Vote"
    /\ unions[2].status = "Open"
    /\ unions[2].expiration_date = "2025-06-10"
    /\ start_date = Ordinal(2025, 6, 1)
    /\ end_date = Ordinal(2025, 6, 10)
    /\ risk_color = "RED"

\* C2: a known airline all of whose groups are exactly "Non-Union" or
\* "Binding Arbitration", with well-formed dates, is returned GREEN with the
\* reasons list holding the OK message and nothing else.
C2_AllSafeIsGreen ==
    (/\ Known
     /\ WellFormedDates
     /\ \A i \in 1..Len(unions) : ExactlySafe(unions[i].status))
        => /\ pc # "raised"
           /\ pc = "returned" =>
                 risk_color = "GREEN" /\ reasons = <<OkReason>>

\* two safe groups, one of them with a contract that expires in the window
C2_Witness ==
    /\ pc = "returned"
    /\ Known
    /\ Len(unions) = 2
    /\ unions[1].status = "Binding Arbitration"
    /\ unions[1].expiration_date = "2025-06-10"
    /\ unions[2].status = "Non-Union"
    /\ start_date = Ordinal(2025, 6, 1)
    /\ end_date = Ordinal(2025, 6, 10)
    /\ reasons = <<OkReason>>

\* C3: once the level is RED, every later step of the evaluation leaves it
\* RED.
C3_RedIsNeverDowngraded == [][risk_color = "RED" => risk_color' = "RED"]_vars

\* RED was set by the first group, and a group that would be YELLOW on its
\* own (contract expired before the trip) was processed after it
C3_Witness ==
    /\ pc = "returned"
    /\ Known
    /\ Len(unions) = 2
    /\ HasCriticalText(unions[1].status)
    /\ unions[2].status = "Negotiating"
    /\ unions[2].expiration_date = "2025-05-31"
    /\ start_date = Ordinal(2025, 6, 1)
    /\ risk_color = "RED"

OnlyGroupIsPlainNA ==
    /\ Known
    /\ Len(unions) = 1
    /\ unions[1].expiration_date = "N/A"
    /\ ~ExactlySafe(unions[1].status)
    /\ ~HasCriticalText(unions[1].status)
    /\ unions[1].status # "Negotiating"

\* C4 as stated: for every window with start <= end, an airline whose only
\* group is "N/A", not safe, not critical and not "Negotiating" is GREEN.
C4_Original ==
    (OnlyGroupIsPlainNA /\ start_date <= end_date /\ pc = "returned")
        => risk_color = "GREEN"

\* C4 as amended: for every window with start <= end that ends on or before
\* 2099-12-01 (30 days before 2099-12-31, the date the code gives "N/A"), no
\* "N/A" group gets a reason of one of the three date rules, and an airline
\* whose only group is "N/A", not safe, not critical and not "Negotiating"
\* is GREEN.
C4_NAHasNoDateRisk ==
    (Known /\ start_date <= end_date /\ end_date <= Ordinal(2099, 12, 1))
        => /\ \A i \in 1..Len(unions) :
                 unions[i].expiration_date = "N/A"
                     => DateReasonsOf(reasons, unions[i].group) = {}
           /\ (OnlyGroupIsPlainNA /\ pc = "returned")
                 => risk_color = "GREEN" /\ reasons = <<OkReason>>

\* the window ends exactly 30 days before 2099-12-31
C4_Witness ==
    /\ pc = "returned"
    /\ OnlyGroupIsPlainNA
    /\ start_date = Ordinal(2099, 11, 20)
    /\ end_date = Ordinal(2099, 12, 1)
    /\ risk_color = "GREEN"

\* C5: for a code that is not in the database, the empty database included,
\* the evaluation reads no union data, does not raise, and returns GREY
\* with the one reason "No data available".
C5_UnknownCodeIsGrey ==
    ~Known
        => /\ pc \in {"call", "returned"}
           /\ pc = "returned" =>
                 /\ risk_color = "GREY"
                 /\ reasons = <<[kind |-> "NO_DATA", text |-> "No data available"]>>

\* the database failed to load and the evaluation has returned
C5_Witness ==
    /\ pc = "returned"
    /\ db = EmptyDb
    /\ code = "WS"
    /\ risk_color = "GREY"

\* C7 as stated: no result is produced for a window whose end is earlier
\* than its start.
C7_InvertedWindowRejected == end_date < start_date => pc # "returned"

\* the three date rules, as the claims state them
TriggersBefore(g) == ResolveExpiry(g.expiration_date) < start_date
TriggersDuring(g) ==
    /\ start_date <= ResolveExpiry(g.expiration_date)
    /\ ResolveExpiry(g.expiration_date) <= end_date
TriggersShortlyAfter(g) ==
    /\ ResolveExpiry(g.expiration_date) - end_date >= 1
    /\ ResolveExpiry(g.expiration_date) - end_date <= 29
DateTriggered(g) ==
    TriggersBefore(g) \/ TriggersDuring(g) \/ TriggersShortlyAfter(g)

\* the step at line 124 appends the "currently negotiating" reason
NegotiatingAppended ==
    /\ Len(reasons') = Len(reasons) + 1
    /\ SubSeq(reasons', 1, Len(reasons)) = reasons
    /\ reasons'[Len(reasons')] =
          [kind |-> "NEGOTIATING",
           text |-> "[WARNING] " \o Title(group.group)
                        \o " are currently negotiating."]

AtNegotiatingGroup == pc = "negotiating" /\ group.status = "Negotiating"

\* C8 as stated: for a "Negotiating" group processed while the level is not
\* RED, the negotiating reason is appended if and only if none of the three
\* date rules triggered for that group.
C8_Original ==
    [][AtNegotiatingGroup
          => (NegotiatingAppended <=> ~DateTriggered(group))]_vars

\* C8 as amended: for a "Negotiating" group processed while the level is not
\* RED, the negotiating reason is appended if and only if none of the three
\* date rules triggered for that group and the level is still GREEN at that
\* check, that is, no earlier group has made it YELLOW; otherwise nothing is
\* appended by the check.
C8_NegotiatingOnlyWhileGreen ==
    [][AtNegotiatingGroup
          => IF ~DateTriggered(group) /\ risk_color = "GREEN"
             THEN NegotiatingAppended /\ risk_color' = "YELLOW"
             ELSE UNCHANGED <<reasons, risk_color>>]_vars

\* a "Negotiating" group with no date rule triggered was processed after a
\* group that had made the level YELLOW: no negotiating reason was appended
C8_Witness ==
    /\ pc = "returned"
    /\ Known
    /\ Len(unions) = 2
    /\ unions[1].status = "Open"
    /\ unions[1].expiration_date = "2025-06-10"
    /\ unions[2].status = "Negotiating"
    /\ unions[2].expiration_date = "N/A"
    /\ start_date = Ordinal(2025, 6, 1)
    /\ end_date = Ordinal(2025, 6, 10)
    /\ risk_color = "YELLOW"
    /\ Len(reasons) = 1
    /\ reasons[1].kind = "DURING"

\* the step at lines 112-122 appends exactly this reason
DateReasonAppended(kind, text) ==
    /\ risk_color' = "YELLOW"
    /\ reasons' = Append(reasons, [kind |-> kind, text |-> text])

GroupOrders(n) ==
    { f \in [1..n -> 1..n] : \A i, j \in 1..n : f[i] = f[j] => i = j }

\* the database with the groups of the evaluated airline in the order f
Reordered(f) ==
    [db EXCEPT ![code].unions = [i \in 1..Len(unions) |-> unions[f[i]]]]

\* C10: the level returned (or the ValueError raised) is the same for every
\* order of the record's union groups.
C10_LevelIgnoresGroupOrder ==
    (Known /\ pc \in {"returned", "raised"})
        => \A f \in GroupOrders(Len(unions)) :
              get_airline_risk(code, start_date, end_date, Reordered(f)).color
                  = (IF pc = "raised" THEN "ValueError" ELSE risk_color)

\* two groups whose other order gives other reasons and the same level
C10_Witness ==
    /\ pc = "returned"
    /\ Known
    /\ Len(unions) = 2
    /\ unions[1].status = "Negotiating"
    /\ unions[1].expiration_date = "2025-06-10"
    /\ unions[2].status = "Impasse"
    /\ start_date = Ordinal(2025, 6, 1)
    /\ end_date = Ordinal(2025, 6, 10)
    /\ risk_color = "RED"
    /\ Len(reasons) = 2
    /\ \E f \in GroupOrders(2) :
          LET r == get_airline_risk(code, start_date, end_date, Reordered(f))
          IN  r.color = "RED" /\ Len(r.reasons) = 1

(***************************************************************************)
(* Properties of the search page (specification SearchSpec)                *)
(***************************************************************************)
RecommendationShown ==
    /\ page.view = "results"
    /\ page.risk_color \in {"RED", "YELLOW"}

LevelOf(c) == get_airline_risk(c, date_range[1], date_range[2], db).color

\* the positions of the location's list whose airline is another one than
\* the chosen one and is GREEN for the window
GreenOthers ==
    LET codes == city_db[selected_city]
    IN  { i \in 1..Len(codes) :
            codes[i] # page.chosen_code /\ LevelOf(codes[i]) = "GREEN" }

\* C6: when the chosen airline is RED or YELLOW, the alternatives are the
\* names of the airlines of the location's list that are not the chosen one
\* and are GREEN for the same window, once each, in the order of the list;
\* the list is empty when there is none.
C6_AlternativesAreGreenOthers ==
    RecommendationShown =>
        LET codes == city_db[selected_city]
            alts == page.safe_alternatives
        IN  /\ page.recommendation
            /\ Len(alts) = Cardinality(GreenOthers)
            /\ \A i \in GreenOthers :
                  alts[Cardinality({j \in GreenOthers : j <= i})]
                      = db[codes[i]].name
            /\ \A k \in 1..Len(alts) :
                  /\ alts[k] # selected_airline_name
                  /\ \E i \in 1..Len(codes) :
                        /\ codes[i] \in DOMAIN db
                        /\ db[codes[i]].name = alts[k]
                        /\ LevelOf(codes[i]) = "GREEN"

\* a RED airline was chosen; one other airline of the city is GREEN, one is
\* YELLOW and the others are not in the database
C6_Witness ==
    /\ RecommendationShown
    /\ page.risk_color = "RED"
    /\ Len(page.safe_alternatives) = 1
    /\ \E i \in 1..Len(city_db[selected_city]) :
          LevelOf(city_db[selected_city][i]) = "YELLOW"
    /\ \E i \in 1..Len(city_db[selected_city]) :
          LevelOf(city_db[selected_city][i]) = "GREY"

====
